---- MODULE Spec2Model ----
(***************************************************************************)
(* Input-side convolution (Convolution/Algorithms/input_side.py, main) and *)
(* the Signal abstraction (Convolution/Algorithms/common/signals/signal.py)*)
(*                                                                         *)
(* Python sequences are 0-based; TLA+ sequences are 1-based, so the Python *)
(* element s[i] is the TLA+ element s[i + 1].  A real x coordinate is kept *)
(* as an unreduced fraction <<numerator, denominator>>.                    *)
(***************************************************************************)
EXTENDS Integers, Sequences, FiniteSets, TLC

\* Bounds of the model.
MaxInputRes == 3
MaxImpulseRes == 2
MaxVal == 1
MaxDim == 3
MaxRandom == 2

VARIABLES
    \* main() of input_side.py
    pc,                 \* "loop", "complete", "exit", "crashed"; "idle" when main is not run
    input_signal_x, input_signal_y,
    impulse_signal_x, impulse_signal_y,
    output_signal_x, output_signal_y,
    input_index, impulse_index, output_index,   \* loop variables, -1 while unbound
    step,
    records,            \* what each executed step has put on the plot, in order
    \* one Signal object of signal.py
    constructed,        \* the object exists
    len, points_count, x_points,
    y_points, y_set,    \* y_set: the attribute y_points exists
    last_call,          \* the last call made on the Signal class
    \* both
    raised              \* the exception the last operation raised, or "none"

mainVars == <<pc, input_signal_x, input_signal_y, impulse_signal_x, impulse_signal_y,
              output_signal_x, output_signal_y, input_index, impulse_index,
              output_index, step, records>>
signalVars == <<constructed, len, points_count, x_points, y_points, y_set, last_call>>
vars == <<mainVars, signalVars, raised>>

----------------------------------------------------------------------------
\* numpy helpers, as the two files use them

\* np.linspace(0, stop, num) for num >= 0: num evenly spaced points, both ends included.
linspace(stop, num) ==
    [k \in 1..num |-> IF num = 1 THEN <<0, 1>> ELSE <<(k - 1) * stop, num - 1>>]

\* np.zeros(n) for n >= 0.
zeros(n) ==
    [k \in 1..n |-> 0]

\* s[i] of Python: is i a valid index, and which position it is.
ValidIndex(s, i) ==
    (0 - Len(s)) <= i /\ i < Len(s)

Pos(s, i) ==
    IF i >= 0 THEN i + 1 ELSE Len(s) + i + 1

----------------------------------------------------------------------------
\* input_side.py

Vals == (0 - MaxVal)..MaxVal

get_signal_x(signal_len, signal_res) ==
    linspace(signal_len - 1, signal_res)

\* All results get_custom_signal_y can give over distinct x coordinates.
get_custom_signal_y(signal_x) ==
    [1..Len(signal_x) -> Vals]

\* All results of np.random.randint(max_output, size=len(signal_x)).
get_random_signal_y(signal_x, max_output) ==
    [1..Len(signal_x) -> 0..(max_output - 1)]

get_zero_signal_y(signal_x) ==
    zeros(Len(signal_x))

compute_step_sum(input_y, impulse_y, prev_output_y) ==
    prev_output_y + input_y + impulse_y

compute_step(input_y, impulse_y, prev_output_y) ==
    prev_output_y + input_y * impulse_y

output_signal_len_short(input_x, impulse_x) ==
    Len(input_x) + Len(impulse_x) - 2

output_signal_len(input_x, impulse_x) ==
    Len(input_x) + Len(impulse_x) - 1

N == Len(input_signal_x)
M == Len(impulse_signal_x)

\* The two nested enumerate loops: the pair after (a, b); a = -1 before the first.
NextPairColumnMajor(a, b) ==
    IF a = -1 THEN <<0, 0>>
    ELSE IF a + 1 < N THEN <<a + 1, b>>
    ELSE <<0, b + 1>>

NextPair(a, b) ==
    IF a = -1 THEN <<0, 0>>
    ELSE IF b + 1 < M THEN <<a, b + 1>>
    ELSE <<a + 1, 0>>

\* Both loops have run out of elements.
LoopExhaustedEarly(a, b) ==
    IF a = -1 THEN N = 0 \/ M = 0
    ELSE b + 1 >= M

LoopExhausted(a, b) ==
    IF a = -1 THEN N = 0 \/ M = 0
    ELSE b + 1 >= M /\ a + 1 >= N

step_unchanged(s) ==
    s

step_increment(s) ==
    s + 1

output_index_of_input(a, b) ==
    a

output_index_of_mirror(a, b) ==
    a - b

output_index_of(a, b) ==
    a + b

\* output_signal_y[output_index] = compute_step(...)
accumulate_reset(output_y, oi, input_y, impulse_y) ==
    [k \in 1..Len(output_y) |->
        IF k = Pos(output_y, oi) THEN compute_step(input_y, impulse_y, output_y[k]) ELSE 0]

accumulate(output_y, oi, input_y, impulse_y) ==
    [output_y EXCEPT ![Pos(output_y, oi)] = compute_step(input_y, impulse_y, @)]

NoSignal ==
    /\ constructed = FALSE
    /\ len = 0
    /\ points_count = 0
    /\ x_points = <<>>
    /\ y_points = <<>>
    /\ y_set = FALSE
    /\ last_call = [op |-> "none", length |-> 0, points_count |-> 0]

\* main(), lines 163-191: the signals are built, no step has run.
Init ==
    /\ \E n \in 1..MaxInputRes, m \in 1..MaxImpulseRes :
          /\ input_signal_x = get_signal_x(n, n)
          /\ impulse_signal_x = get_signal_x(m, m)
    /\ input_signal_y \in get_custom_signal_y(input_signal_x)
    /\ impulse_signal_y \in get_random_signal_y(impulse_signal_x, MaxVal + 1)
    /\ LET osl == output_signal_len(input_signal_x, impulse_signal_x)
       IN  output_signal_x = get_signal_x(osl, osl)
    /\ output_signal_y = get_zero_signal_y(output_signal_x)
    /\ step = 0
    /\ input_index = -1
    /\ impulse_index = -1
    /\ output_index = -1
    /\ records = <<>>
    /\ pc = "loop"
    /\ raised = "none"
    /\ NoSignal

\* One execution of the loop body, lines 194-223.
Step ==
    /\ pc = "loop"
    /\ ~LoopExhausted(input_index, impulse_index)
    /\ LET p == NextPair(input_index, impulse_index)
           a == p[1]
           b == p[2]
           s == step_increment(step)
           oi == output_index_of(a, b)
       IN  /\ input_index' = a
           /\ impulse_index' = b
           /\ step' = s
           /\ output_index' = oi
           /\ IF ValidIndex(output_signal_x, oi) /\ ValidIndex(output_signal_y, oi)
              THEN /\ output_signal_y' = accumulate(output_signal_y, oi,
                                                    input_signal_y[a + 1],
                                                    impulse_signal_y[b + 1])
                   /\ records' = Append(records,
                          [step_index |-> s, input_index |-> a, impulse_index |-> b,
                           output_index |-> oi,
                           output_value |-> output_signal_y'[Pos(output_signal_y, oi)]])
                   /\ pc' = "loop"
                   /\ raised' = "none"
              ELSE /\ raised' = "IndexError"
                   /\ pc' = "crashed"
                   /\ UNCHANGED <<output_signal_y, records>>
    /\ UNCHANGED <<input_signal_x, input_signal_y, impulse_signal_x, impulse_signal_y,
                   output_signal_x, signalVars>>

\* The loops find no further element: line 225.
LoopExit ==
    /\ pc = "loop"
    /\ LoopExhausted(input_index, impulse_index)
    /\ pc' = "complete"
    /\ UNCHANGED <<input_signal_x, input_signal_y, impulse_signal_x, impulse_signal_y,
                   output_signal_x, output_signal_y, input_index, impulse_index,
                   output_index, step, records, signalVars, raised>>

\* Line 226: the user presses Enter.
Quit ==
    /\ pc = "complete"
    /\ pc' = "exit"
    /\ UNCHANGED <<input_signal_x, input_signal_y, impulse_signal_x, impulse_signal_y,
                   output_signal_x, output_signal_y, input_index, impulse_index,
                   output_index, step, records, signalVars, raised>>

Next ==
    \/ Step
    \/ LoopExit
    \/ Quit

Spec == Init /\ [][Next]_vars

----------------------------------------------------------------------------
\* signal.py

Dims == (0 - 1)..MaxDim

\* The functions handed to set_custom_output: total functions of one real.
Funcs == {"one", "floor", "negate_floor"}

ApplyFunc(func, x) ==
    CASE func = "one" -> 1
      [] func = "floor" -> x[1] \div x[2]
      [] func = "negate_floor" -> 0 - (x[1] \div x[2])

InitSignal ==
    /\ NoSignal
    /\ raised = "none"
    /\ pc = "idle"
    /\ input_signal_x = <<>>
    /\ input_signal_y = <<>>
    /\ impulse_signal_x = <<>>
    /\ impulse_signal_y = <<>>
    /\ output_signal_x = <<>>
    /\ output_signal_y = <<>>
    /\ input_index = -1
    /\ impulse_index = -1
    /\ output_index = -1
    /\ step = 0
    /\ records = <<>>

\* Signal(length, points_count), lines 14-18.  np.linspace rejects a negative
\* number of samples with ValueError; nothing else is checked.
SignalInit(length, count) ==
    /\ ~constructed
    /\ last_call.op = "none"
    /\ last_call' = [op |-> "Signal", length |-> length, points_count |-> count]
    /\ IF count < 0
       THEN /\ raised' = "ValueError"
            /\ UNCHANGED <<constructed, len, points_count, x_points, y_points, y_set>>
       ELSE /\ raised' = "none"
            /\ constructed' = TRUE
            /\ len' = length
            /\ points_count' = count
            /\ x_points' = linspace(length - 1, count)
            /\ UNCHANGED <<y_points, y_set>>
    /\ UNCHANGED mainVars

\* set_custom_output(func), line 26.
set_custom_output(func) ==
    /\ constructed
    /\ last_call' = [last_call EXCEPT !.op = "set_custom_output"]
    /\ y_points' = [k \in 1..Len(x_points) |-> ApplyFunc(func, x_points[k])]
    /\ y_set' = TRUE
    /\ raised' = "none"
    /\ UNCHANGED <<constructed, len, points_count, x_points, mainVars>>

\* set_random_output(max_output), line 34, for max_output >= 1.  A negative
\* size is rejected by numpy with ValueError.
set_random_output(max_output) ==
    /\ constructed
    /\ last_call' = [last_call EXCEPT !.op = "set_random_output"]
    /\ IF len < 0
       THEN /\ raised' = "ValueError"
            /\ UNCHANGED <<y_points, y_set>>
       ELSE /\ raised' = "none"
            /\ y_points' \in [1..len -> 0..(max_output - 1)]
            /\ y_set' = TRUE
    /\ UNCHANGED <<constructed, len, points_count, x_points, mainVars>>

\* set_zero_output(), line 40.
set_zero_output ==
    /\ constructed
    /\ last_call' = [last_call EXCEPT !.op = "set_zero_output"]
    /\ IF len < 0
       THEN /\ raised' = "ValueError"
            /\ UNCHANGED <<y_points, y_set>>
       ELSE /\ raised' = "none"
            /\ y_points' = zeros(len)
            /\ y_set' = TRUE
    /\ UNCHANGED <<constructed, len, points_count, x_points, mainVars>>

NextSignal ==
    \/ \E length \in Dims, count \in Dims : SignalInit(length, count)
    \/ \E func \in Funcs : set_custom_output(func)
    \/ \E max_output \in 1..MaxRandom : set_random_output(max_output)
    \/ set_zero_output

SpecSignal == InitSignal /\ [][NextSignal]_vars

----------------------------------------------------------------------------
\* Reference values the claims compare the program with

RECURSIVE ConvSum(_, _)
\* The terms of the convolution sum for output sample i with input index 0..a.
ConvSum(i, a) ==
    IF a < 0 THEN 0
    ELSE ConvSum(i, a - 1)
         + (IF 0 <= i - a /\ i - a < M
            THEN input_signal_y[a + 1] * impulse_signal_y[i - a + 1]
            ELSE 0)

Reference(i) ==
    ConvSum(i, N - 1)

RECURSIVE ProcessedSum(_, _)
\* The products of the first k processed pairs that fall into output sample i.
ProcessedSum(i, k) ==
    IF k = 0 THEN 0
    ELSE ProcessedSum(i, k - 1)
         + (IF records[k].input_index + records[k].impulse_index = i
            THEN input_signal_y[records[k].input_index + 1]
                 * impulse_signal_y[records[k].impulse_index + 1]
            ELSE 0)

RowMajor(k) ==
    <<(k - 1) \div M, (k - 1) % M>>

PairOf(r) ==
    <<r.input_index, r.impulse_index>>

Finished ==
    pc \in {"complete", "exit"}

----------------------------------------------------------------------------
\* C1: once the loops have run to completion, the output signal has exactly
\* N+M-1 samples and sample i equals the reference double sum of
\* input[a] * impulse[i-a] over 0 <= a < N, 0 <= i-a < M.
C1_ConvolutionCorrect ==
    Finished =>
        /\ Len(output_signal_y) = N + M - 1
        /\ \A i \in 0..(N + M - 2) : output_signal_y[i + 1] = Reference(i)

C1_Witness ==
    /\ pc = "complete"
    /\ N >= 2
    /\ M >= 2
    /\ output_signal_y[2] # 0

\* C2 (as amended): exactly N*M steps run; a step is possible before each of
\* them and no longer once the N*M-th, pair (N-1, M-1), has run; after that
\* the loops end without any error and the output signal, the indices and
\* the step counter stay as they are.
C2_StepCountInv ==
    /\ Len(records) <= N * M
    /\ (pc = "loop" /\ Len(records) < N * M) => ENABLED Step
    /\ (Len(records) = N * M) =>
          /\ ~ENABLED Step
          /\ PairOf(records[Len(records)]) = <<N - 1, M - 1>>
    /\ (Len(records) > 0 /\ PairOf(records[Len(records)]) = <<N - 1, M - 1>>) =>
          Len(records) = N * M
    /\ Finished => Len(records) = N * M
    /\ pc # "crashed"

C3_LengthInvariant ==
    (constructed /\ y_set) =>
        /\ Len(x_points) = Len(y_points)
        /\ Len(y_points) = points_count

\* C4: in every state each output sample equals the sum of the products of
\* the processed pairs that fall into it, the processed pairs being a prefix
\* of the input-major, impulse-minor order; a sample no processed pair falls
\* into is 0.
C4_PartialSums ==
    /\ \A k \in 1..Len(records) : PairOf(records[k]) = RowMajor(k)
    /\ \A i \in 0..(Len(output_signal_y) - 1) :
          /\ output_signal_y[i + 1] = ProcessedSum(i, Len(records))
          /\ (\A k \in 1..Len(records) :
                 records[k].input_index + records[k].impulse_index # i)
             => output_signal_y[i + 1] = 0

C4_Witness ==
    /\ pc = "loop"
    /\ Len(records) > 1
    /\ Len(records) < N * M
    /\ output_signal_y[2] # 0
    /\ output_signal_y[2] # Reference(1)

StepRecordFields(k) ==
    LET r == records[k]
    IN  /\ r.input_index = (k - 1) \div M
        /\ r.impulse_index = (k - 1) % M
        /\ r.output_index = r.input_index + r.impulse_index
        /\ r.output_value = ProcessedSum(r.output_index, k)

C6_InvalidDimensionRejected ==
    last_call.op = "Signal" =>
        ((last_call.length < 1 \/ last_call.points_count < 1)
            <=> (raised = "InvalidDimensionError" /\ ~constructed))

\* C7: a step changes at most the output sample at input_index +
\* impulse_index; every other output sample, the x coordinates of the three
\* signals and the y values of the input and impulse signals stay the same.
C7_OneSamplePerStep ==
    [][/\ Len(output_signal_y') = Len(output_signal_y)
       /\ \A k \in 1..Len(output_signal_y) :
             k # input_index' + impulse_index' + 1
                => output_signal_y'[k] = output_signal_y[k]
       /\ UNCHANGED <<input_signal_x, impulse_signal_x, output_signal_x,
                      input_signal_y, impulse_signal_y>>]_vars

C7_Witness ==
    /\ Len(records) >= 2
    /\ impulse_index >= 1
    /\ records[Len(records)].output_value # records[Len(records) - 1].output_value
    /\ output_signal_y[1] # 0

\* C8: the pairs are processed in row-major order, none skipped or repeated:
\* first (0, 0); after (a, b) with b < M-1 comes (a, b+1); after (a, M-1)
\* with a < N-1 comes (a+1, 0); at the end each of the N*M pairs has been
\* processed exactly once.
C8_OrderInv ==
    /\ \A j, k \in 1..Len(records) : j # k => PairOf(records[j]) # PairOf(records[k])
    /\ Finished =>
          /\ {PairOf(records[k]) : k \in 1..Len(records)} = (0..(N - 1)) \X (0..(M - 1))
          /\ Len(records) = N * M

C8_RowMajorOrder ==
    /\ []C8_OrderInv
    /\ [][records' # records =>
            /\ records' = Append(records, records'[Len(records')])
            /\ PairOf(records'[Len(records')]) = <<input_index', impulse_index'>>
            /\ Len(records) = 0 => <<input_index', impulse_index'>> = <<0, 0>>
            /\ (Len(records) > 0 /\ impulse_index < M - 1) =>
                  <<input_index', impulse_index'>> = <<input_index, impulse_index + 1>>
            /\ (Len(records) > 0 /\ impulse_index = M - 1) =>
                  /\ input_index < N - 1
                  /\ <<input_index', impulse_index'>> = <<input_index + 1, 0>>]_vars

C8_Witness ==
    /\ M >= 2
    /\ Len(records) = M + 1
    /\ input_index = 1
    /\ impulse_index = 0

\* C9: at every step 0 <= input_index < N, 0 <= impulse_index < M and
\* output_index = input_index + impulse_index lies in 0..N+M-2, a valid
\* position of the output signal of N+M-1 samples; no step indexes past the
\* end of a signal.
C9_IndicesInBounds ==
    /\ Len(output_signal_y) = N + M - 1
    /\ Len(output_signal_x) = N + M - 1
    /\ Len(input_signal_y) = N
    /\ Len(impulse_signal_y) = M
    /\ raised # "IndexError"
    /\ pc # "crashed"
    /\ step > 0 =>
          /\ 0 <= input_index /\ input_index < N
          /\ 0 <= impulse_index /\ impulse_index < M
          /\ output_index = input_index + impulse_index
          /\ 0 <= output_index /\ output_index <= N + M - 2

C9_Witness ==
    /\ N >= 2
    /\ M >= 2
    /\ pc = "loop"
    /\ output_index = N + M - 2

\* C10: once a pair with input_index = a has been processed, every output
\* sample i < a holds its final convolution value and no later step changes it.
C10_FinalInv ==
    input_index >= 0 =>
        \A i \in 0..(input_index - 1) : output_signal_y[i + 1] = Reference(i)

C10_FinalFromLeft ==
    /\ []C10_FinalInv
    /\ [][input_index >= 0 =>
            \A i \in 0..(input_index - 1) : output_signal_y'[i + 1] = output_signal_y[i + 1]]_vars

C10_Witness ==
    /\ pc = "loop"
    /\ input_index >= 1
    /\ ~LoopExhausted(input_index, impulse_index)
    /\ output_signal_y[1] # 0
    /\ output_signal_y[input_index + 2] # Reference(input_index + 1)

====
